---- MODULE Spec2Model ----
(***************************************************************************)
(* Model of src/app/page.tsx: the AlphaVantageAPI client (getDailyData,    *)
(* parseStockData) and the part of StockPortfolioApp / Header that drives  *)
(* it (fetchStockPrice, updateAllPrices, handleSearch).                    *)
(*                                                                         *)
(* JavaScript strings are sequences of UTF-16 code units, so that sort(),  *)
(* trim(), toUpperCase(), parseFloat() and parseInt() are computed, not    *)
(* assumed.  A Number is the decimal value m * 10^(-e) of the parsed       *)
(* literal, kept normalised (no trailing fractional zero).                 *)
(***************************************************************************)
EXTENDS Integers, Sequences, FiniteSets, TLC

VARIABLES
    stockPrices,   \* useState<Record<string, any>>({})          (line 69)
    isLoading,     \* useState(false)                            (line 70)
    apiStatus,     \* useState('')                               (line 71)
    searchTerm,    \* Header: useState('')                       (line 207)
    requests,      \* every fetch() issued so far, in issue order
    batches,       \* every updateAllPrices() run started so far
    lastDelivery,  \* the response or failure handed to the latest continuation
    apiData,       \* input of the parser specification
    parsed         \* result of the parser specification

vars == <<stockPrices, isLoading, apiStatus, searchTerm, requests, batches,
          lastDelivery, apiData, parsed>>

(***************************************************************************)
(* Bounds of the model.                                                    *)
(***************************************************************************)
MaxSearches == 1   \* search submissions that start a fetch
MaxBatches == 1    \* presses of the "update all" button
MaxDates == 2      \* date keys in one daily series (parser specification)

(***************************************************************************)
(* Strings.                                                                *)
(***************************************************************************)
EmptyStr == << >>

IsDigit(c) == c >= 48 /\ c <= 57

\* String.prototype.trim strips white space; the terms of the model use
\* space (32) and tab (9).
IsWhiteSpace(c) == c = 32 \/ c = 9

RECURSIVE TrimStart(_)
TrimStart(s) ==
    IF s = EmptyStr THEN s
    ELSE IF IsWhiteSpace(Head(s)) THEN TrimStart(Tail(s)) ELSE s

RECURSIVE TrimEnd(_)
TrimEnd(s) ==
    IF s = EmptyStr THEN s
    ELSE IF IsWhiteSpace(s[Len(s)]) THEN TrimEnd(SubSeq(s, 1, Len(s) - 1)) ELSE s

TrimMutStartOnly(s) == TrimStart(s)

Trim(s) == TrimEnd(TrimStart(s))

\* String.prototype.toUpperCase on the ASCII range.
UpperUnit(c) == IF c >= 97 /\ c <= 122 THEN c - 32 ELSE c

ToUpperCase(s) == [i \in 1..Len(s) |-> UpperUnit(s[i])]

\* a < b as the default comparator of Array.prototype.sort compares
\* strings: code unit by code unit, a proper prefix first.
RECURSIVE StrLess(_, _)
StrLess(a, b) ==
    IF b = EmptyStr THEN FALSE
    ELSE IF a = EmptyStr THEN TRUE
    ELSE IF Head(a) < Head(b) THEN TRUE
    ELSE IF Head(a) > Head(b) THEN FALSE
    ELSE StrLess(Tail(a), Tail(b))

\* A property read gives Undefined for a missing key and Some(v) for a key
\* holding v.  JavaScript truthiness: undefined and the empty string are
\* falsy, every other string and every object (an empty one too) is truthy.
Undefined == << >>

Some(v) == <<v>>

TruthyString(p) == p # Undefined /\ p # Some(EmptyStr)

TruthyObject(p) == p # Undefined

(***************************************************************************)
(* Numbers.                                                                *)
(***************************************************************************)
NaN == [m |-> 0, e |-> -1]

RECURSIVE Pow10(_)
Pow10(n) == IF n = 0 THEN 1 ELSE 10 * Pow10(n - 1)

RECURSIVE Normalise(_, _)
Normalise(m, e) ==
    IF e > 0 /\ m % 10 = 0 THEN Normalise(m \div 10, e - 1)
    ELSE [m |-> m, e |-> e]

\* The longest prefix of s made of decimal digits.
RECURSIVE DigitPrefix(_)
DigitPrefix(s) ==
    IF s = EmptyStr \/ ~IsDigit(Head(s)) THEN EmptyStr
    ELSE <<Head(s)>> \o DigitPrefix(Tail(s))

RECURSIVE DigitsValue(_)
DigitsValue(s) ==
    IF s = EmptyStr THEN 0
    ELSE 10 * DigitsValue(SubSeq(s, 1, Len(s) - 1)) + (s[Len(s)] - 48)

ParseFloatMutNoFraction(str) ==
    LET s == TrimStart(str)
        ip == DigitPrefix(s)
    IN  IF ip = EmptyStr THEN NaN ELSE Normalise(DigitsValue(ip), 0)

\* parseFloat on unsigned decimal text: leading white space skipped, then
\* the longest prefix digits [ "." digits ]; NaN when it has no digit.
parseFloat(str) ==
    LET s == TrimStart(str)
        ip == DigitPrefix(s)
        rest == SubSeq(s, Len(ip) + 1, Len(s))
        fp == IF rest # EmptyStr /\ Head(rest) = 46
              THEN DigitPrefix(Tail(rest)) ELSE EmptyStr
    IN  IF ip = EmptyStr /\ fp = EmptyStr THEN NaN
        ELSE Normalise(DigitsValue(ip) * Pow10(Len(fp)) + DigitsValue(fp), Len(fp))

\* parseInt (radix 10): leading white space skipped, then the longest
\* prefix of digits; NaN when there is none.
parseInt(str) ==
    LET ip == DigitPrefix(TrimStart(str))
    IN  IF ip = EmptyStr THEN NaN ELSE Normalise(DigitsValue(ip), 0)

(***************************************************************************)
(* Provider responses.  A JSON object is a record of the three keys the    *)
(* code reads ('Error Message', 'Note', 'Time Series (Daily)'), Undefined  *)
(* for a key the object does not have.  A daily series is the sequence of  *)
(* its <<date key, entry>> pairs in the order the keys appear in the       *)
(* response (the order Object.keys returns them in); an entry is a record  *)
(* of the string-encoded '1. open' .. '5. volume' fields.                  *)
(***************************************************************************)
Date20231231 == <<50, 48, 50, 51, 45, 49, 50, 45, 51, 49>>   \* "2023-12-31"
Date20240102 == <<50, 48, 50, 52, 45, 48, 49, 45, 48, 50>>   \* "2024-01-02"
Date20240103 == <<50, 48, 50, 52, 45, 48, 49, 45, 48, 51>>   \* "2024-01-03"

Dates == {Date20231231, Date20240102, Date20240103}

Str15000 == <<49, 53, 48, 46, 48, 48>>          \* "150.00"
Str15200 == <<49, 53, 50, 46, 48, 48>>          \* "152.00"
Str14950 == <<49, 52, 57, 46, 53, 48>>          \* "149.50"
Str15125 == <<49, 53, 49, 46, 50, 53>>          \* "151.25"
Str1000000 == <<49, 48, 48, 48, 48, 48, 48>>    \* "1000000"
Str14810 == <<49, 52, 56, 46, 49, 48>>          \* "148.10"
Str15375 == <<49, 53, 51, 46, 55, 53>>          \* "153.75"
Str14705 == <<49, 52, 55, 46, 48, 53>>          \* "147.05"
Str15320 == <<49, 53, 51, 46, 50, 48>>          \* "153.20"
Str2500300 == <<50, 53, 48, 48, 51, 48, 48>>    \* "2500300"

EntryA ==
    [open |-> Str15000, high |-> Str15200, low |-> Str14950,
     close |-> Str15125, volume |-> Str1000000]

EntryB ==
    [open |-> Str14810, high |-> Str15375, low |-> Str14705,
     close |-> Str15320, volume |-> Str2500300]

Entries == {EntryA, EntryB}

\* The text of a provider message: any non-empty string.
ProviderMsg == <<73, 110, 118, 97, 108, 105, 100>>   \* "Invalid"

DistinctKeys(ts) == \A i, j \in 1..Len(ts) : ts[i][1] = ts[j][1] => i = j

SeriesOfLen(n) == {ts \in [1..n -> Dates \X Entries] : DistinctKeys(ts)}

AllSeries == UNION {SeriesOfLen(n) : n \in 0..MaxDates}

Response(err, note, series) == [err |-> err, note |-> note, series |-> series]

\* Inputs of the parser specification.
AllResponses ==
    {Response(e, n, ts) : e \in {Undefined, Some(ProviderMsg)},
                          n \in {Undefined, Some(ProviderMsg)},
                          ts \in {Undefined} \cup {Some(s) : s \in AllSeries}}

SeriesNewestLast == <<<<Date20240102, EntryA>>, <<Date20240103, EntryB>>>>
SeriesNewestFirst == <<<<Date20240103, EntryA>>, <<Date20240102, EntryB>>>>

\* Responses the provider returns in the component's specification: with
\* and without each of the three keys, an empty series, two series that
\* give different quotes.
MainResponses ==
    {Response(Some(ProviderMsg), Undefined, Some(SeriesNewestLast)),
     Response(Undefined, Some(ProviderMsg), Some(SeriesNewestLast)),
     Response(Some(ProviderMsg), Some(ProviderMsg), Undefined),
     Response(Undefined, Undefined, Undefined),
     Response(Undefined, Undefined, Some(<< >>)),
     Response(Undefined, Undefined, Some(SeriesNewestLast)),
     Response(Undefined, Undefined, Some(SeriesNewestFirst))}

(***************************************************************************)
(* AlphaVantageAPI.                                                        *)
(***************************************************************************)
Return(v) == [kind |-> "return", value |-> v]
Throw(msg) == [kind |-> "throw", message |-> msg]

NotFoundMsg == "symbol not found"          \* '銘柄が見つかりません'
RateLimitMsg == "API limit reached"        \* 'API制限に達しました。...'
NetworkMsg == "Failed to fetch"            \* fetch() rejected
SyntaxMsg == "Unexpected token"            \* response.json() rejected
TypeErrorMsg == "Cannot read properties of undefined"

\* getDailyData from the point where `data` is available (lines 21-29);
\* the catch clause rethrows what the try block threw.
getDailyDataMutNoErrorCheck(data) ==
    IF TruthyString(data.note) THEN Throw(RateLimitMsg)
    ELSE Return(data)

getDailyDataMutNoNoteCheck(data) ==
    IF TruthyString(data.err) THEN Throw(NotFoundMsg)
    ELSE Return(data)

getDailyData(data) ==
    IF TruthyString(data.err) THEN Throw(NotFoundMsg)
    ELSE IF TruthyString(data.note) THEN Throw(RateLimitMsg)
    ELSE Return(data)

ObjectKeys(ts) == [i \in 1..Len(ts) |-> ts[i][1]]

\* Array.prototype.sort with the default comparator, as an insertion sort.
RECURSIVE Insert(_, _)
Insert(x, sorted) ==
    IF sorted = << >> THEN <<x>>
    ELSE IF StrLess(x, Head(sorted)) THEN <<x>> \o sorted
    ELSE <<Head(sorted)>> \o Insert(x, Tail(sorted))

RECURSIVE Sort(_)
Sort(a) == IF a = << >> THEN a ELSE Insert(Head(a), Sort(Tail(a)))

Reverse(a) == [i \in 1..Len(a) |-> a[Len(a) + 1 - i]]

\* a[0]
First(a) == IF Len(a) = 0 THEN Undefined ELSE Some(a[1])

\* timeSeries[key]
Get(ts, key) ==
    IF key # Undefined /\ \E i \in 1..Len(ts) : ts[i][1] = key[1]
    THEN Some(ts[CHOOSE i \in 1..Len(ts) : ts[i][1] = key[1]][2])
    ELSE Undefined

\* What parseStockData gives back: null or the object literal of lines 45-52.
Null == [kind |-> "null"]

Quote(q) == [kind |-> "quote", quote |-> q]

BuildQuote(latestDate, latestData) ==
    [date |-> latestDate,
     open |-> parseFloat(latestData.open),
     high |-> parseFloat(latestData.high),
     low |-> parseFloat(latestData.low),
     close |-> parseFloat(latestData.close),
     volume |-> parseInt(latestData.volume)]

LatestDateMutNoReverse(timeSeries) == First(Sort(ObjectKeys(timeSeries)))

\* const dates = Object.keys(timeSeries).sort().reverse(); dates[0]
LatestDate(timeSeries) == First(Reverse(Sort(ObjectKeys(timeSeries))))

parseStockDataMutNoNullCheck(data) ==
    LET timeSeries == data.series
    IN  IF ~TruthyObject(timeSeries) THEN Throw(TypeErrorMsg)
        ELSE LET latestDate == LatestDate(timeSeries[1])
                 latestData == Get(timeSeries[1], latestDate)
             IN  IF latestData = Undefined THEN Throw(TypeErrorMsg)
                 ELSE Quote(BuildQuote(latestDate[1], latestData[1]))

parseStockDataMutEmptyIsNull(data) ==
    LET timeSeries == data.series
    IN  IF ~TruthyObject(timeSeries) THEN Null
        ELSE LET latestDate == LatestDate(timeSeries[1])
                 latestData == Get(timeSeries[1], latestDate)
             IN  IF latestData = Undefined THEN Null
                 ELSE Quote(BuildQuote(latestDate[1], latestData[1]))

\* Reading '1. open' of an undefined latestData throws a TypeError.
parseStockData(data) ==
    LET timeSeries == data.series
    IN  IF ~TruthyObject(timeSeries) THEN Null
        ELSE LET latestDate == LatestDate(timeSeries[1])
                 latestData == Get(timeSeries[1], latestDate)
             IN  IF latestData = Undefined THEN Throw(TypeErrorMsg)
                 ELSE Quote(BuildQuote(latestDate[1], latestData[1]))

(***************************************************************************)
(* StockPortfolioApp and Header.                                           *)
(***************************************************************************)
AAPL == <<65, 65, 80, 76>>               \* "AAPL"
MSFT == <<77, 83, 70, 84>>               \* "MSFT"
T7203 == <<55, 50, 48, 51, 46, 84>>      \* "7203.T"
T9432 == <<57, 52, 51, 50, 46, 84>>      \* "9432.T"

\* const symbols = ['AAPL', 'MSFT', '7203.T', '9432.T']
symbols == <<AAPL, MSFT, T7203, T9432>>

\* setTimeout(resolve, 1000)
Delay == 1000

\* The step by which the model lets time pass.
TickMs == Delay \div 2

\* What the user types into the search box.
TermBlank == <<32, 32>>                        \* "  "
TermMsft == <<32, 109, 115, 102, 116, 32>>     \* " msft "

SearchTerms == {TermBlank, TermMsft}

\* apiStatus: '' , `${symbol} のデータを取得中...`,
\* `${symbol} のデータを取得しました`, `エラー: ${error.message}`
StatusNone == [kind |-> "", symbol |-> EmptyStr, message |-> ""]
StatusFetching(symbol) == [kind |-> "fetching", symbol |-> symbol, message |-> ""]
StatusDone(symbol) == [kind |-> "done", symbol |-> symbol, message |-> ""]
StatusError(message) == [kind |-> "error", symbol |-> EmptyStr, message |-> message]

Search == 0   \* owner of a request started from the header search

NoResponse == Response(Undefined, Undefined, Undefined)

NoDelivery == [kind |-> "none", data |-> NoResponse]

Unparsed == [kind |-> "unset"]

InFlight == {id \in 1..Len(requests) : requests[id].stage # "done"}

OwnedBy(owner) == {id \in 1..Len(requests) : requests[id].owner = owner}

Init ==
    /\ stockPrices = << >>
    /\ isLoading = FALSE
    /\ apiStatus = StatusNone
    /\ searchTerm = EmptyStr
    /\ requests = << >>
    /\ batches = << >>
    /\ lastDelivery = NoDelivery
    /\ apiData = NoResponse
    /\ parsed = Unparsed

\* fetchStockPrice up to its first await (lines 75-79, 16): the two state
\* updates and the fetch() call.  For a request of a batch run after its
\* first, gap is the time since the run issued its previous request and
\* slept the time the timer of line 102 ran before this call (-1: no
\* previous request).  got is what parseStockData returned to this call
\* (Null until then, and when it returned null or was not reached).
fetchStockPrice(symbol, owner, gap, slept) ==
    /\ isLoading' = TRUE
    /\ apiStatus' = StatusFetching(symbol)
    /\ requests' = Append(requests,
           [symbol |-> symbol, owner |-> owner, stage |-> "pending", gap |-> gap,
            slept |-> slept, got |-> Null])

MergeMutReplaceAll(prev, symbol, parsedData) == [s \in {symbol} |-> parsedData]

\* { ...prev, symbol: parsedData }: the key is the text "symbol".
MergeMutLiteralKey(prev, symbol, parsedData) ==
    [s \in DOMAIN prev \cup {<<115, 121, 109, 98, 111, 108>>} |->
        IF s = <<115, 121, 109, 98, 111, 108>> THEN parsedData ELSE prev[s]]

\* setStockPrices(prev => ({...prev, [symbol]: parsedData}))
Merge(prev, symbol, parsedData) ==
    [s \in DOMAIN prev \cup {symbol} |-> IF s = symbol THEN parsedData ELSE prev[s]]

\* The try block of fetchStockPrice from the point where the response body
\* is available: getDailyData's checks, then parseStockData.
TryBlock(data) ==
    LET r == getDailyData(data)
    IN  IF r.kind = "throw" THEN r ELSE parseStockData(r.value)

PricesAfterMutClearOnError(prev, symbol, result) ==
    IF result.kind = "quote" THEN Merge(prev, symbol, result.quote)
    ELSE IF result.kind = "throw" THEN << >>
    ELSE prev

PricesAfter(prev, symbol, result) ==
    IF result.kind = "quote" THEN Merge(prev, symbol, result.quote) ELSE prev

StatusAfterMutClearOnNoData(status, symbol, result) ==
    IF result.kind = "quote" THEN StatusDone(symbol)
    ELSE IF result.kind = "throw" THEN StatusError(result.message)
    ELSE StatusNone

StatusAfter(status, symbol, result) ==
    IF result.kind = "quote" THEN StatusDone(symbol)
    ELSE IF result.kind = "throw" THEN StatusError(result.message)
    ELSE status

\* finally { setIsLoading(false) }
LoadingAfterMutNoFinally(loading, result) ==
    IF result.kind = "throw" THEN loading ELSE FALSE

LoadingAfter(loading, result) == FALSE

GotAfter(result) == IF result.kind = "quote" THEN result ELSE Null

FinishMutAbortOnThrow(id, kind, data, result) ==
    LET req == requests[id]
    IN  /\ stockPrices' = PricesAfter(stockPrices, req.symbol, result)
        /\ apiStatus' = StatusAfter(apiStatus, req.symbol, result)
        /\ isLoading' = LoadingAfter(isLoading, result)
        /\ requests' = [requests EXCEPT ![id].stage = "done",
                                        ![id].got = GotAfter(result)]
        /\ batches' = IF req.owner = Search THEN batches
                      ELSE IF result.kind = "throw"
                      THEN [batches EXCEPT ![req.owner].phase = "done"]
                      ELSE [batches EXCEPT ![req.owner].phase = "sleep",
                                           ![req.owner].timerLeft = Delay]
        /\ lastDelivery' = [kind |-> kind, data |-> data]
        /\ UNCHANGED <<searchTerm, apiData, parsed>>

FinishMutRetry(id, kind, data, result) ==
    LET req == requests[id]
        ended == [requests EXCEPT ![id].stage = "done", ![id].got = GotAfter(result)]
    IN  /\ stockPrices' = PricesAfter(stockPrices, req.symbol, result)
        /\ apiStatus' = StatusAfter(apiStatus, req.symbol, result)
        /\ isLoading' = LoadingAfter(isLoading, result)
        /\ requests' = IF result.kind = "throw" /\ Len(requests) < 2 * Len(symbols)
                       THEN Append(ended, [req EXCEPT !.gap = -1, !.slept = -1])
                       ELSE ended
        /\ batches' = IF req.owner = Search \/ result.kind = "throw" THEN batches
                      ELSE [batches EXCEPT ![req.owner].phase = "sleep",
                                           ![req.owner].timerLeft = Delay]
        /\ lastDelivery' = [kind |-> kind, data |-> data]
        /\ UNCHANGED <<searchTerm, apiData, parsed>>

\* The rest of fetchStockPrice (lines 80-93) once getDailyData has returned
\* or thrown, and, when updateAllPrices awaits this call, its next
\* statement: the setTimeout of line 102.
Finish(id, kind, data, result) ==
    LET req == requests[id]
    IN  /\ stockPrices' = PricesAfter(stockPrices, req.symbol, result)
        /\ apiStatus' = StatusAfter(apiStatus, req.symbol, result)
        /\ isLoading' = LoadingAfter(isLoading, result)
        /\ requests' = [requests EXCEPT ![id].stage = "done",
                                        ![id].got = GotAfter(result)]
        /\ batches' = IF req.owner = Search THEN batches
                      ELSE [batches EXCEPT ![req.owner].phase = "sleep",
                                           ![req.owner].timerLeft = Delay]
        /\ lastDelivery' = [kind |-> kind, data |-> data]
        /\ UNCHANGED <<searchTerm, apiData, parsed>>

\* onChange of the search input (disabled while isLoading).
TypeSearchTerm ==
    /\ ~isLoading
    /\ \E t \in SearchTerms \cup {EmptyStr} :
          /\ t # searchTerm
          /\ searchTerm' = t
    /\ UNCHANGED <<stockPrices, isLoading, apiStatus, requests, batches,
                   lastDelivery, apiData, parsed>>

\* Header.handleSearch, reached by submitting the form (the input is
\* disabled while isLoading) or by the search button (disabled while
\* isLoading or while the term is blank).
handleSearch ==
    /\ ~isLoading
    /\ IF Trim(searchTerm) # EmptyStr
       THEN /\ Cardinality(OwnedBy(Search)) < MaxSearches
            /\ fetchStockPrice(ToUpperCase(Trim(searchTerm)), Search, -1, -1)
            /\ searchTerm' = EmptyStr
            /\ UNCHANGED <<stockPrices, batches, lastDelivery, apiData, parsed>>
       ELSE UNCHANGED vars

\* Click on the "update all" button (disabled while isLoading):
\* updateAllPrices up to its first await.
updateAllPrices ==
    /\ ~isLoading
    /\ Len(batches) < MaxBatches
    /\ batches' = Append(batches,
           [idx |-> 1, phase |-> "fetch", timerLeft |-> 0, sinceIssue |-> 0])
    /\ fetchStockPrice(symbols[1], Len(batches) + 1, -1, -1)
    /\ UNCHANGED <<stockPrices, searchTerm, lastDelivery, apiData, parsed>>

\* The awaits of lines 16 and 19 settle for request id: fetch() rejects,
\* response.json() rejects, or the parsed body is there.  The microtasks
\* that follow run before any other event.
Settle(id) ==
    /\ requests[id].stage = "pending"
    /\ \/ Finish(id, "network", NoResponse, Throw(NetworkMsg))
       \/ Finish(id, "syntax", NoResponse, Throw(SyntaxMsg))
       \/ \E data \in MainResponses : Finish(id, "data", data, TryBlock(data))

\* The timer of line 102 fires: the loop of updateAllPrices goes on to the
\* next symbol, or ends after the last one.
TimerReadyMutNoWait(b) == batches[b].phase = "sleep"

TimerReady(b) == batches[b].phase = "sleep" /\ batches[b].timerLeft = 0

TimerFire(b) ==
    /\ TimerReady(b)
    /\ IF batches[b].idx < Len(symbols)
       THEN /\ batches' = [batches EXCEPT ![b].idx = @ + 1, ![b].phase = "fetch",
                                          ![b].sinceIssue = 0]
            /\ fetchStockPrice(symbols[batches[b].idx + 1], b, batches[b].sinceIssue,
                               Delay - batches[b].timerLeft)
            /\ UNCHANGED <<stockPrices, searchTerm, lastDelivery, apiData, parsed>>
       ELSE /\ batches' = [batches EXCEPT ![b].phase = "done"]
            /\ UNCHANGED <<stockPrices, isLoading, apiStatus, searchTerm, requests,
                           lastDelivery, apiData, parsed>>

Min(a, b) == IF a < b THEN a ELSE b
Max(a, b) == IF a > b THEN a ELSE b

\* TickMs of time pass.  sinceIssue is kept up to Delay: Delay stands for
\* "Delay or more".
Tick ==
    /\ \E b \in 1..Len(batches) :
          /\ batches[b].phase # "done"
          /\ batches[b].timerLeft > 0 \/ batches[b].sinceIssue < Delay
    /\ batches' = [b \in 1..Len(batches) |->
                      [batches[b] EXCEPT !.timerLeft = Max(0, @ - TickMs),
                                         !.sinceIssue = Min(Delay, @ + TickMs)]]
    /\ UNCHANGED <<stockPrices, isLoading, apiStatus, searchTerm, requests,
                   lastDelivery, apiData, parsed>>

\* TotalInvestmentSection: the stocks of investmentData (domestic, then us)
\* with the base prices of lines 329-363, as numbers m * 10^-e.
T9984 == <<57, 57, 56, 52, 46, 84>>   \* "9984.T"
T8306 == <<56, 51, 48, 54, 46, 84>>   \* "8306.T"

stocks ==
    <<[symbol |-> T7203, basePrice |-> [m |-> 2567, e |-> 0]],
      [symbol |-> T9984, basePrice |-> [m |-> 3890, e |-> 0]],
      [symbol |-> T8306, basePrice |-> [m |-> 987, e |-> 0]],
      [symbol |-> AAPL, basePrice |-> [m |-> 180, e |-> 0]],
      [symbol |-> MSFT, basePrice |-> [m |-> 350, e |-> 0]]>>

updatePriceFromAPIMutFirstEntry(basePrice, symbol) ==
    IF DOMAIN stockPrices # {}
    THEN stockPrices[CHOOSE s \in DOMAIN stockPrices : TRUE].close
    ELSE basePrice

\* if (stockPrices[symbol]) return stockPrices[symbol].close; return basePrice
\* An entry is an object, hence truthy; none of the symbols of stocks names
\* a property of Object.prototype.
updatePriceFromAPI(basePrice, symbol) ==
    IF symbol \in DOMAIN stockPrices THEN stockPrices[symbol].close ELSE basePrice

\* currentPrice of the i-th stock, as the render computes it from the state.
currentPrice(i) == updatePriceFromAPI(stocks[i].basePrice, stocks[i].symbol)

Next ==
    \/ TypeSearchTerm
    \/ handleSearch
    \/ updateAllPrices
    \/ \E id \in 1..Len(requests) : Settle(id)
    \/ \E b \in 1..Len(batches) : TimerFire(b)
    \/ Tick

Spec == Init /\ [][Next]_vars

\* The event loop runs every timer callback that is due, time passes, and
\* every fetch() settles: the provider answers or the request fails.
AnySettle == \E id \in 1..Len(requests) : Settle(id)

AnyTimerFire == \E b \in 1..Len(batches) : TimerFire(b)

FairSpec ==
    Spec /\ WF_vars(Tick) /\ WF_vars(AnyTimerFire) /\ WF_vars(AnySettle)

(***************************************************************************)
(* The parser on its own: any response of AllResponses is parsed once.     *)
(***************************************************************************)
ParseInit ==
    /\ stockPrices = << >>
    /\ isLoading = FALSE
    /\ apiStatus = StatusNone
    /\ searchTerm = EmptyStr
    /\ requests = << >>
    /\ batches = << >>
    /\ lastDelivery = NoDelivery
    /\ apiData \in AllResponses
    /\ parsed = Unparsed

ParseStep ==
    /\ parsed = Unparsed
    /\ parsed' = parseStockData(apiData)
    /\ UNCHANGED <<stockPrices, isLoading, apiStatus, searchTerm, requests,
                   batches, lastDelivery, apiData>>

ParseNext == ParseStep

ParseSpec == ParseInit /\ [][ParseNext]_vars

(***************************************************************************)
(* Properties.                                                             *)
(***************************************************************************)
\* The step ends the fetch of request id: its response or failure is handed
\* to fetchStockPrice.
Completes(id) == requests[id].stage = "pending" /\ requests'[id].stage = "done"

Delivered(kind) == lastDelivery.kind = kind

HasErrorMessage(data) == data.err # Undefined
HasNote(data) == data.note # Undefined
HasSeries(data) == data.series # Undefined

\* C1: a response that contains an 'Error Message' field makes the fetch
\* fail with the symbol-not-found error, and the step that handles it
\* writes nothing to stockPrices, also when the response carries a series.
C1_ErrorMessageNeverStored ==
    [][\A id \in 1..Len(requests) :
          (Completes(id) /\ lastDelivery'.kind = "data"
                         /\ HasErrorMessage(lastDelivery'.data))
          => /\ stockPrices' = stockPrices
             /\ apiStatus' = StatusError(NotFoundMsg)]_vars

C1_Witness ==
    /\ Delivered("data")
    /\ HasErrorMessage(lastDelivery.data)
    /\ HasSeries(lastDelivery.data)
    /\ apiStatus = StatusError(NotFoundMsg)
    /\ InFlight = {}
    /\ stockPrices = << >>

\* C2 as stated: a response that contains a 'Note' field makes the fetch
\* fail with the rate-limited error, whatever else the response contains.
C2_Original ==
    [][\A id \in 1..Len(requests) :
          (Completes(id) /\ lastDelivery'.kind = "data" /\ HasNote(lastDelivery'.data))
          => apiStatus' = StatusError(RateLimitMsg)]_vars

\* C2, amended: a response that contains a 'Note' field and no
\* 'Error Message' field makes the fetch fail with the rate-limited error,
\* which is not the symbol-not-found error, whatever series it carries; a
\* response that contains both fields fails with the symbol-not-found error.
C2_NoteWithoutErrorMessage ==
    [][\A id \in 1..Len(requests) :
          (Completes(id) /\ lastDelivery'.kind = "data" /\ HasNote(lastDelivery'.data))
          => /\ stockPrices' = stockPrices
             /\ RateLimitMsg # NotFoundMsg
             /\ apiStatus' = IF HasErrorMessage(lastDelivery'.data)
                             THEN StatusError(NotFoundMsg)
                             ELSE StatusError(RateLimitMsg)]_vars

C2_Witness ==
    /\ Delivered("data")
    /\ HasNote(lastDelivery.data)
    /\ ~HasErrorMessage(lastDelivery.data)
    /\ HasSeries(lastDelivery.data)
    /\ apiStatus = StatusError(RateLimitMsg)
    /\ InFlight = {}

\* C3: a response with no 'Time Series (Daily)' key, no 'Error Message' and
\* no 'Note' parses to null, and the step that handles it changes neither
\* stockPrices nor apiStatus (no Quote, no error status).
C3_NoSeriesIsSilent ==
    [][\A id \in 1..Len(requests) :
          (Completes(id) /\ lastDelivery'.kind = "data"
                         /\ lastDelivery'.data = NoResponse)
          => /\ parseStockData(lastDelivery'.data) = Null
             /\ stockPrices' = stockPrices
             /\ apiStatus' = apiStatus
             /\ isLoading' = FALSE]_vars

C3_Witness ==
    /\ Delivered("data")
    /\ lastDelivery.data = NoResponse
    /\ Len(requests) = 1
    /\ InFlight = {}
    /\ apiStatus = StatusFetching(requests[1].symbol)
    /\ stockPrices = << >>
    /\ ~isLoading

\* The symbols of the requests a batch run has issued, in issue order.
RECURSIVE SymbolsOf(_, _)
SymbolsOf(reqs, owner) ==
    IF reqs = << >> THEN << >>
    ELSE IF Head(reqs).owner = owner
         THEN <<Head(reqs).symbol>> \o SymbolsOf(Tail(reqs), owner)
         ELSE SymbolsOf(Tail(reqs), owner)

\* A batch run has issued one request for each of the first idx symbols of
\* its list, in list order, whatever the earlier ones ended in; it goes on
\* after every response or failure (its timer is then running or ready to
\* fire the next iteration), and it has ended only after the request of
\* every listed symbol was issued and answered.
BatchInListOrder ==
    \A b \in 1..Len(batches) :
        /\ SymbolsOf(requests, b) = SubSeq(symbols, 1, batches[b].idx)
        /\ batches[b].phase = "fetch"
              => \E id \in OwnedBy(b) :
                    /\ OwnedBy(b) \cap InFlight = {id}
                    /\ requests[id].symbol = symbols[batches[b].idx]
        /\ batches[b].phase = "sleep"
              => /\ OwnedBy(b) \cap InFlight = {}
                 /\ batches[b].timerLeft = 0 => ENABLED TimerFire(b)
                 /\ batches[b].timerLeft > 0 => ENABLED Tick
        /\ batches[b].phase = "done"
              => /\ batches[b].idx = Len(symbols)
                 /\ OwnedBy(b) \cap InFlight = {}

BatchStarted == Len(batches) >= 1

BatchEnded == \A b \in 1..Len(batches) : batches[b].phase = "done"

\* C4: a batch run issues exactly one request per listed symbol, in list
\* order, whatever the earlier requests ended in (a failure, no data, a
\* Quote), and, every request being answered or failing, every run that
\* was started ends, with all its symbols requested.
C4_BatchAttemptsEverySymbol == [](BatchInListOrder) /\ (BatchStarted ~> BatchEnded)

\* The request for AAPL failed and the run went on to request MSFT.
C4_Witness ==
    /\ Len(batches) = 1
    /\ Len(requests) = 2
    /\ requests[1].owner = 1 /\ requests[1].symbol = AAPL /\ requests[1].stage = "done"
    /\ requests[2].owner = 1 /\ requests[2].symbol = MSFT /\ requests[2].stage = "pending"
    /\ Delivered("network")

\* C5 as stated: at most one request to the provider is in flight.
C5_AtMostOneInFlight == Cardinality(InFlight) <= 1

\* C6: within a batch run, a request after the first is issued only when
\* the run's previous request has been answered, the timer started at that
\* answer has run for the whole Delay, and at least Delay has passed since
\* the previous request was issued.
C6_DelayBetweenBatchRequests ==
    \A id \in 1..Len(requests) :
        LET req == requests[id]
            earlier == {i \in OwnedBy(req.owner) : i < id}
        IN  req.owner # Search =>
               /\ \A i \in earlier : requests[i].stage = "done"
               /\ IF earlier = {}
                  THEN req.gap = -1 /\ req.slept = -1
                  ELSE req.gap >= Delay /\ req.slept >= Delay

C6_Witness ==
    \E id \in 1..Len(requests) :
        /\ requests[id].owner # Search
        /\ requests[id].symbol = T9432
        /\ requests[id].gap = Delay
        /\ requests[id].slept = Delay

\* The greatest date key of a series in calendar order: the dates of the
\* model, oldest first.
DateOrdinal(d) ==
    CASE d = Date20231231 -> 1
      [] d = Date20240102 -> 2
      [] d = Date20240103 -> 3

GreatestPair(ts) ==
    CHOOSE i \in 1..Len(ts) :
        \A j \in 1..Len(ts) : DateOrdinal(ts[j][1]) <= DateOrdinal(ts[i][1])

\* The numeric value of each string-encoded field of the model, as m * 10^(-e).
Dec(m, e) == [m |-> m, e |-> e]

NumericValue(s) ==
    CASE s = Str15000 -> Dec(150, 0)
      [] s = Str15200 -> Dec(152, 0)
      [] s = Str14950 -> Dec(1495, 1)
      [] s = Str15125 -> Dec(15125, 2)
      [] s = Str1000000 -> Dec(1000000, 0)
      [] s = Str14810 -> Dec(1481, 1)
      [] s = Str15375 -> Dec(15375, 2)
      [] s = Str14705 -> Dec(14705, 2)
      [] s = Str15320 -> Dec(1532, 1)
      [] s = Str2500300 -> Dec(2500300, 0)

\* C7: for a series with at least one date key, parseStockData returns a
\* Quote dated with the greatest date key, built from that date's entry,
\* wherever that key stands in the response.
C7_LatestDateSelected ==
    (parsed # Unparsed /\ HasSeries(apiData) /\ Len(apiData.series[1]) >= 1)
    => LET ts == apiData.series[1]
           latest == ts[GreatestPair(ts)]
       IN  /\ parsed.kind = "quote"
           /\ parsed.quote.date = latest[1]
           /\ parsed.quote.open = NumericValue(latest[2].open)
           /\ parsed.quote.close = NumericValue(latest[2].close)

\* The greatest date key is not the first key of the response.
C7_Witness ==
    /\ parsed # Unparsed
    /\ HasSeries(apiData)
    /\ Len(apiData.series[1]) = MaxDates
    /\ GreatestPair(apiData.series[1]) # 1
    /\ parsed.kind = "quote"
    /\ parsed.quote.date = Date20240103

\* C8: the Quote's open, high, low, close and volume are the numeric values
\* of the '1. open', '2. high', '3. low', '4. close' and '5. volume' strings
\* of the entry stored under the Quote's date, each from its own key,
\* fractions kept.
C8_FieldsParsedExactly ==
    parsed.kind = "quote"
    => \E i \in 1..Len(apiData.series[1]) :
          LET entry == apiData.series[1][i][2]
          IN  /\ apiData.series[1][i][1] = parsed.quote.date
              /\ parsed.quote.open = NumericValue(entry.open)
              /\ parsed.quote.high = NumericValue(entry.high)
              /\ parsed.quote.low = NumericValue(entry.low)
              /\ parsed.quote.close = NumericValue(entry.close)
              /\ parsed.quote.volume = NumericValue(entry.volume)

\* The entry of the specification's example: close "151.25", volume "1000000".
C8_Witness ==
    /\ parsed.kind = "quote"
    /\ apiData.series = Some(<<<<Date20240103, EntryA>>>>)
    /\ parsed.quote.open = Dec(150, 0)
    /\ parsed.quote.high = Dec(152, 0)
    /\ parsed.quote.low = Dec(1495, 1)
    /\ parsed.quote.close = Dec(15125, 2)
    /\ parsed.quote.volume = Dec(1000000, 0)

\* C9: a request is issued only by a step that is a search submission, a
\* press of "update all" or the next iteration of a batch run's loop, one
\* request per step; a step that ends a fetch, in failure or not, issues none.
C9_NoAutomaticRetry ==
    [][Len(requests') # Len(requests)
       => /\ Len(requests') = Len(requests) + 1
          /\ \A id \in 1..Len(requests) : requests'[id] = requests[id]
          /\ LET new == requests'[Len(requests')]
             IN  IF new.owner = Search
                 THEN /\ ~isLoading
                      /\ Trim(searchTerm) # EmptyStr
                      /\ new.symbol = ToUpperCase(Trim(searchTerm))
                 ELSE \/ /\ ~isLoading
                         /\ Len(batches') = Len(batches) + 1
                         /\ new.owner = Len(batches')
                      \/ /\ Len(batches') = Len(batches)
                         /\ batches[new.owner].phase = "sleep"
                         /\ batches'[new.owner].idx = batches[new.owner].idx + 1]_vars

\* A fetch has failed and nothing is in flight: no request follows it.
C9_Witness ==
    /\ Len(requests) = 1
    /\ requests[1].owner = Search
    /\ InFlight = {}
    /\ Delivered("network")
    /\ apiStatus = StatusError(NetworkMsg)

\* C10: the step that ends a fetch resets isLoading, and when the fetch
\* failed (symbol not found, rate limited, network or body-parse failure)
\* it sets the error status with that failure's message.
C10_ErrorsCaughtLoadingReset ==
    [][\A id \in 1..Len(requests) :
          Completes(id)
          => /\ isLoading' = FALSE
             /\ lastDelivery'.kind = "network" => apiStatus' = StatusError(NetworkMsg)
             /\ lastDelivery'.kind = "syntax" => apiStatus' = StatusError(SyntaxMsg)
             /\ (lastDelivery'.kind = "data" /\ HasErrorMessage(lastDelivery'.data))
                   => apiStatus' = StatusError(NotFoundMsg)
             /\ (lastDelivery'.kind = "data" /\ ~HasErrorMessage(lastDelivery'.data)
                                            /\ HasNote(lastDelivery'.data))
                   => apiStatus' = StatusError(RateLimitMsg)]_vars

C10_Witness ==
    /\ Delivered("syntax")
    /\ apiStatus = StatusError(SyntaxMsg)
    /\ ~isLoading
    /\ InFlight = {}
    /\ Len(requests) = 1

\* The Quote a response with a non-empty series and neither 'Error Message'
\* nor 'Note' stands for: the entry of its calendar-latest date, in numbers.
YieldsQuote(data) ==
    /\ ~HasErrorMessage(data)
    /\ ~HasNote(data)
    /\ HasSeries(data)
    /\ Len(data.series[1]) >= 1

ExpectedQuote(data) ==
    LET ts == data.series[1]
        latest == ts[GreatestPair(ts)]
    IN  [date |-> latest[1],
         open |-> NumericValue(latest[2].open),
         high |-> NumericValue(latest[2].high),
         low |-> NumericValue(latest[2].low),
         close |-> NumericValue(latest[2].close),
         volume |-> NumericValue(latest[2].volume)]

\* C11: the step that ends a fetch for symbol s with a Quote leaves
\* stockPrices with s mapped to exactly that Quote, with no key but the
\* earlier ones and s, and with every other symbol's entry as it was.
C11_InsertOrReplace ==
    [][\A id \in 1..Len(requests) :
          (Completes(id) /\ lastDelivery'.kind = "data" /\ YieldsQuote(lastDelivery'.data))
          => LET s == requests[id].symbol
             IN  /\ DOMAIN stockPrices' = DOMAIN stockPrices \cup {s}
                 /\ stockPrices'[s] = ExpectedQuote(lastDelivery'.data)
                 /\ \A o \in DOMAIN stockPrices \ {s} :
                       stockPrices'[o] = stockPrices[o]]_vars

\* MSFT's entry was replaced by a different Quote while AAPL's entry stayed.
C11_Witness ==
    /\ InFlight = {}
    /\ AAPL \in DOMAIN stockPrices
    /\ MSFT \in DOMAIN stockPrices
    /\ \E i, j \in 1..Len(requests) :
          /\ i < j
          /\ requests[i].symbol = MSFT /\ requests[i].got.kind = "quote"
          /\ requests[j].symbol = MSFT /\ requests[j].got.kind = "quote"
          /\ requests[i].got # requests[j].got
          /\ stockPrices[MSFT] = requests[j].got.quote
    /\ \E k \in 1..Len(requests) :
          requests[k].symbol = AAPL /\ stockPrices[AAPL] = requests[k].got.quote

\* The requests for symbol s that were answered with a Quote.
Successful(s) ==
    {id \in 1..Len(requests) : requests[id].symbol = s /\ requests[id].got.kind = "quote"}

LastIssued(ids) == CHOOSE id \in ids : \A other \in ids : other <= id

\* C12 as stated: once no request is in flight, the entry of a symbol is the
\* Quote returned to the most recently issued successful fetch of that symbol.
C12_LastIssuedFetchWins ==
    InFlight = {}
    => \A s \in DOMAIN stockPrices :
          /\ Successful(s) # {}
          /\ stockPrices[s] = requests[LastIssued(Successful(s))].got.quote

Failed(delivery) ==
    \/ delivery.kind \in {"network", "syntax"}
    \/ delivery.kind = "data" /\ ~YieldsQuote(delivery.data)

\* C13: no step removes a symbol from stockPrices, and the step that ends a
\* fetch in a failure of any kind or in no data leaves stockPrices as it was.
C13_NoEviction ==
    [][/\ DOMAIN stockPrices \subseteq DOMAIN stockPrices'
       /\ \A id \in 1..Len(requests) :
             (Completes(id) /\ Failed(lastDelivery')) => stockPrices' = stockPrices]_vars

C13_Witness ==
    /\ InFlight = {}
    /\ Delivered("network")
    /\ DOMAIN stockPrices = {AAPL, MSFT, T7203}
    /\ Len(requests) = 4

\* C14: no Quote is lost: every symbol some fetch was answered for with a
\* Quote has an entry, holding a Quote returned to a fetch of that symbol,
\* and the Quote of its only successful fetch when there is just one;
\* whichever of two overlapping fetches ends first.
C14_NoLostUpdate ==
    \A id \in 1..Len(requests) :
        requests[id].got.kind = "quote"
        => LET s == requests[id].symbol
           IN  /\ s \in DOMAIN stockPrices
               /\ \E j \in Successful(s) : stockPrices[s] = requests[j].got.quote
               /\ Successful(s) = {id} => stockPrices[s] = requests[id].got.quote

\* A search was still in flight when the batch run issued its next request,
\* for another symbol; the batch's request was answered first, then the
\* search (the status names the search's symbol): both Quotes are there.
C14_Witness ==
    \E i \in 1..Len(requests) :
        /\ Len(requests) = i + 1
        /\ InFlight = {}
        /\ requests[i].owner = Search
        /\ requests[i + 1].owner # Search
        /\ requests[i + 1].symbol # requests[i].symbol
        /\ requests[i].got.kind = "quote"
        /\ requests[i + 1].got.kind = "quote"
        /\ apiStatus = StatusDone(requests[i].symbol)
        /\ stockPrices[requests[i].symbol] = requests[i].got.quote
        /\ stockPrices[requests[i + 1].symbol] = requests[i + 1].got.quote

\* A term with a code unit that is not white space, and the symbol a
\* non-blank term of SearchTerms stands for.
NonBlank(term) == \E i \in 1..Len(term) : term[i] \notin {9, 10, 11, 12, 13, 32, 160}

ExpectedSymbol(term) == IF term = TermMsft THEN MSFT ELSE term

SearchIssued ==
    /\ Len(requests') = Len(requests) + 1
    /\ requests'[Len(requests')].owner = Search

\* C15: a search request is issued only for a term that is not blank, for
\* the trimmed upper-cased term, and the input is cleared by the same step;
\* submitting a non-blank term can issue such a request (while the input is
\* enabled), and submitting a blank or white-space-only term issues none
\* and changes no state.
C15_SearchTriggersFetch ==
    /\ [][SearchIssued
          => /\ NonBlank(searchTerm)
             /\ requests'[Len(requests')].symbol = ExpectedSymbol(searchTerm)
             /\ requests'[Len(requests')].stage = "pending"
             /\ apiStatus' = StatusFetching(ExpectedSymbol(searchTerm))
             /\ searchTerm' = EmptyStr]_vars
    /\ [](/\ (NonBlank(searchTerm) /\ ~isLoading
                 /\ Cardinality(OwnedBy(Search)) < MaxSearches)
             => ENABLED (handleSearch /\ SearchIssued)
          /\ ~NonBlank(searchTerm) => ~ENABLED (handleSearch /\ vars' # vars))

C15_Witness ==
    /\ searchTerm = EmptyStr
    /\ \E id \in InFlight :
          /\ id = Len(requests)
          /\ requests[id].owner = Search
          /\ requests[id].symbol = MSFT
    /\ apiStatus = StatusFetching(MSFT)
    /\ isLoading

\* The sample holdings and their static prices, from lines 326-363.
HoldingSymbols == <<T7203, T9984, T8306, AAPL, MSFT>>

StaticPrice(s) ==
    CASE s = T7203 -> Dec(2567, 0)
      [] s = T9984 -> Dec(3890, 0)
      [] s = T8306 -> Dec(987, 0)
      [] s = AAPL -> Dec(180, 0)
      [] s = MSFT -> Dec(350, 0)

\* C16: the current price of a sample holding is the close of the cached
\* Quote of its own symbol when stockPrices has one and its static base
\* price otherwise; a step that leaves the entry of the holding's symbol as
\* it was (whatever it does to other entries) leaves the holding's price.
C16_HoldingPriceFromOwnEntry ==
    /\ [](\A i \in 1..Len(HoldingSymbols) :
             LET s == HoldingSymbols[i]
             IN  currentPrice(i) = IF s \in DOMAIN stockPrices
                                   THEN stockPrices[s].close
                                   ELSE StaticPrice(s))
    /\ [][\A i \in 1..Len(HoldingSymbols) :
             LET s == HoldingSymbols[i]
             IN  (\/ s \notin DOMAIN stockPrices /\ s \notin DOMAIN stockPrices'
                  \/ /\ s \in DOMAIN stockPrices /\ s \in DOMAIN stockPrices'
                     /\ stockPrices'[s] = stockPrices[s])
                 => currentPrice(i)' = currentPrice(i)]_vars

\* AAPL and MSFT are cached with different closes; 7203.T is not cached.
C16_Witness ==
    /\ DOMAIN stockPrices = {AAPL, MSFT}
    /\ stockPrices[AAPL].close # stockPrices[MSFT].close
    /\ currentPrice(4) = stockPrices[AAPL].close
    /\ currentPrice(5) = stockPrices[MSFT].close
    /\ currentPrice(4) # StaticPrice(AAPL)
    /\ currentPrice(1) = StaticPrice(T7203)
    /\ currentPrice(2) = StaticPrice(T9984)
    /\ InFlight = {}

\* C17 as stated: isLoading is true whenever a request is in flight.
C17_LoadingWhileInFlight == InFlight # {} => isLoading

\* A response whose 'Time Series (Daily)' is an object with no date entry
\* (and no 'Error Message', no 'Note').
EmptySeries(data) ==
    /\ ~HasErrorMessage(data)
    /\ ~HasNote(data)
    /\ HasSeries(data)
    /\ data.series[1] = << >>

\* C18: the step that hands fetchStockPrice a response whose series has no
\* date entry stores no Quote (stockPrices is unchanged and the call got
\* none), sets the error status of the TypeError that parseStockData throws
\* (the no-data outcome sets no status) and sets isLoading to false.
C18_EmptySeriesIsAnError ==
    [][\A id \in 1..Len(requests) :
          (Completes(id) /\ lastDelivery'.kind = "data" /\ EmptySeries(lastDelivery'.data))
          => /\ parseStockData(lastDelivery'.data).kind = "throw"
             /\ stockPrices' = stockPrices
             /\ requests'[id].got = Null
             /\ apiStatus' = StatusError(TypeErrorMsg)
             /\ isLoading' = FALSE]_vars

C18_Witness ==
    /\ Delivered("data")
    /\ EmptySeries(lastDelivery.data)
    /\ apiStatus = StatusError(TypeErrorMsg)
    /\ ~isLoading
    /\ InFlight = {}
    /\ DOMAIN stockPrices = {AAPL}
    /\ Len(requests) = 2

\* Request id runs alone so far: it is the last one issued, the only one in
\* flight, and no fetch has ended since it was issued (isLoading still has
\* the value its issue gave it, which the end of any fetch resets).
RunsAlone(id) ==
    /\ id = Len(requests)
    /\ InFlight = {id}
    /\ isLoading

\* The message a failed fetch leaves, by the kind of failure.
FailureMessage(delivery) ==
    CASE delivery.kind = "network" -> NetworkMsg
      [] delivery.kind = "syntax" -> SyntaxMsg
      [] delivery.kind = "data" /\ HasErrorMessage(delivery.data) -> NotFoundMsg
      [] delivery.kind = "data" /\ ~HasErrorMessage(delivery.data)
                                /\ HasNote(delivery.data) -> RateLimitMsg
      [] OTHER -> TypeErrorMsg

\* C19: the step that ends a fetch for s that ran alone leaves the status
\* its outcome determines: "data retrieved" for s after a Quote, the error
\* message of the failure after a failure, and after the no-data outcome the
\* "fetching s" status, with isLoading already false.
C19_StatusFollowsOutcome ==
    [][\A id \in 1..Len(requests) :
          (Completes(id) /\ RunsAlone(id))
          => LET s == requests[id].symbol
                 d == lastDelivery'
             IN  /\ (d.kind = "data" /\ YieldsQuote(d.data))
                    => apiStatus' = StatusDone(s)
                 /\ (d.kind # "data" \/ HasErrorMessage(d.data) \/ HasNote(d.data)
                                     \/ EmptySeries(d.data))
                    => apiStatus' = StatusError(FailureMessage(d))
                 /\ (d.kind = "data" /\ d.data = NoResponse)
                    => (apiStatus' = StatusFetching(s) /\ isLoading' = FALSE)]_vars

\* The search for MSFT, the only request so far, ended with no data.
C19_Witness ==
    /\ Len(requests) = 1
    /\ requests[1].owner = Search
    /\ requests[1].symbol = MSFT
    /\ requests[1].stage = "done"
    /\ Delivered("data")
    /\ lastDelivery.data = NoResponse
    /\ apiStatus = StatusFetching(MSFT)
    /\ ~isLoading

====
